---- MODULE Spec2Model ----
(***************************************************************************)
(* Model of pfr-dl's game mode (src/src/main.rs): parse_player_stats_table,*)
(* parse_game_log and process_week.                                        *)
(*                                                                         *)
(* Strings are sequences of byte codes, so that str::trim, u32::to_string  *)
(* and the key order of BTreeMap<&str, &str> are computed, not assumed.    *)
(* Option<T> is a sequence of length 0 (None) or 1 (Some).                 *)
(***************************************************************************)
EXTENDS Integers, Sequences, FiniteSets, TLC

\* ------------------------------------------------------------------------
\* Bounds of the explored inputs
\* ------------------------------------------------------------------------

\* Largest number of game links on the week page.
MaxDocs == 2

\* Largest number of child nodes of a generated table row.
MaxCells == 2

\* ------------------------------------------------------------------------
\* Strings
\* ------------------------------------------------------------------------

S_player == <<112, 108, 97, 121, 101, 114>>

S_player_id == <<112, 108, 97, 121, 101, 114, 95, 105, 100>>

S_year == <<121, 101, 97, 114>>

S_week == <<119, 101, 101, 107>>

S_game_id == <<103, 97, 109, 101, 95, 105, 100>>

S_empty == <<>>

\* White space removed by str::trim, restricted to one-byte characters.
IsWhitespace(b) == b \in {9, 10, 11, 12, 13, 32}

RECURSIVE TrimStart(_)
TrimStart(s) ==
    IF s # <<>> /\ IsWhitespace(s[1]) THEN TrimStart(Tail(s)) ELSE s

RECURSIVE TrimEnd(_)
TrimEnd(s) ==
    IF s # <<>> /\ IsWhitespace(s[Len(s)])
    THEN TrimEnd(SubSeq(s, 1, Len(s) - 1))
    ELSE s

\* str::trim
Trim(s) == TrimEnd(TrimStart(s))

\* u32::to_string: the decimal digits of n.
RECURSIVE U32ToString(_)
U32ToString(n) ==
    IF n < 10 THEN <<48 + n>>
    ELSE Append(U32ToString(n \div 10), 48 + (n % 10))

\* Ord for str: lexicographic order of the bytes.
StrLess(a, b) ==
    \E k \in 1..Len(b) :
        /\ k <= Len(a) + 1
        /\ \A j \in 1..(k - 1) : a[j] = b[j]
        /\ (k > Len(a) \/ a[k] < b[k])

\* ------------------------------------------------------------------------
\* Option
\* ------------------------------------------------------------------------

None == <<>>

Some(x) == <<x>>

IsSome(o) == o # <<>>

\* ------------------------------------------------------------------------
\* BTreeMap<&str, &str>: a function from keys to values; iteration is in
\* ascending key order.
\* ------------------------------------------------------------------------

BTreeMapNew == [k \in {} |-> <<>>]

BTreeMapInsert(m, k, v) ==
    [x \in (DOMAIN m) \cup {k} |-> IF x = k THEN v ELSE m[x]]

BTreeMapGet(m, k) == IF k \in DOMAIN m THEN Some(m[k]) ELSE None

\* Ascending with the order reversed.
RECURSIVE Descending(_)
Descending(S) ==
    IF S = {} THEN <<>>
    ELSE LET hi == CHOOSE x \in S : \A y \in S \ {x} : StrLess(y, x)
         IN  <<hi>> \o Descending(S \ {hi})

\* The elements of a set of strings in ascending order.
RECURSIVE Ascending(_)
Ascending(S) ==
    IF S = {} THEN <<>>
    ELSE LET lo == CHOOSE x \in S : \A y \in S \ {x} : StrLess(x, y)
         IN  <<lo>> \o Ascending(S \ {lo})

\* BTreeMap::keys
BTreeMapKeys(m) == Ascending(DOMAIN m)

\* ------------------------------------------------------------------------
\* scraper's node tree
\* ------------------------------------------------------------------------

\* Node::Text
TextNode(t) ==
    [tag |-> "text", text |-> t, data_append_csv |-> None,
     data_stat |-> None, kids |-> <<>>]

\* Node::Element with its data-append-csv and data-stat attributes
Element(csv, stat, kids) ==
    [tag |-> "elem", text |-> <<>>, data_append_csv |-> csv,
     data_stat |-> stat, kids |-> kids]

\* NodeRef::first_child
FirstChild(n) == IF n.kids = <<>> THEN None ELSE Some(n.kids[1])

\* The eight sections of a game log, in the order parse_game_log reads them.
StatsType ==
    {"Offense", "Defense", "Returns", "Kicking",
     "AdvPassing", "AdvRushing", "AdvReceiving", "AdvDefense"}

MandatorySections ==
    << [sel |-> "#player_offense", ty |-> "Offense"],
       [sel |-> "#player_defense", ty |-> "Defense"],
       [sel |-> "#returns", ty |-> "Returns"],
       [sel |-> "#kicking", ty |-> "Kicking"] >>

OptionalSections ==
    << [sel |-> "#passing_advanced", ty |-> "AdvPassing"],
       [sel |-> "#rushing_advanced", ty |-> "AdvRushing"],
       [sel |-> "#receiving_advanced", ty |-> "AdvReceiving"],
       [sel |-> "#defense_advanced", ty |-> "AdvDefense"] >>

Selectors ==
    {MandatorySections[i].sel : i \in 1..Len(MandatorySections)}
        \cup {OptionalSections[i].sel : i \in 1..Len(OptionalSections)}

\* ------------------------------------------------------------------------
\* parse_player_stats_table
\* ------------------------------------------------------------------------

\* DataValElt without the branch for "player": always the cell's first child.
DataValEltFirstChild(cell, stat_name) == FirstChild(cell)

\* The value node of a cell (lines 151-160).
DataValElt(cell, stat_name) ==
    IF stat_name = S_player
    THEN IF IsSome(FirstChild(cell))
         THEN FirstChild(FirstChild(cell)[1])
         ELSE None
    ELSE FirstChild(cell)

\* RowCells with the `continue 'rowlabel` of line 147 weakened to `continue`:
\* an element without data-stat is passed over and the row goes on.
RECURSIVE RowCellsLenient(_, _, _)
RowCellsLenient(cells, i, player_data) ==
    IF i > Len(cells) THEN [skip |-> FALSE, player_data |-> player_data]
    ELSE LET cell == cells[i]
             withId == IF cell.tag = "elem" /\ IsSome(cell.data_append_csv)
                       THEN BTreeMapInsert(player_data, S_player_id,
                                           cell.data_append_csv[1])
                       ELSE player_data
         IN  IF cell.tag # "elem" \/ ~IsSome(cell.data_stat)
             THEN RowCellsLenient(cells, i + 1, withId)
             ELSE LET stat_name == cell.data_stat[1]
                      v == DataValElt(cell, stat_name)
                  IN  IF IsSome(v) /\ v[1].tag = "text"
                      THEN RowCellsLenient(cells, i + 1,
                               BTreeMapInsert(withId, Trim(stat_name),
                                              Trim(v[1].text)))
                      ELSE RowCellsLenient(cells, i + 1, withId)

\* The inner loop over the children of one row (lines 129-165), from child
\* i on.  `skip` is set when an element without data-stat is met and the
\* row is abandoned (continue 'rowlabel).
RECURSIVE RowCells(_, _, _)
RowCells(cells, i, player_data) ==
    IF i > Len(cells) THEN [skip |-> FALSE, player_data |-> player_data]
    ELSE LET cell == cells[i]
         IN  IF cell.tag # "elem"
             THEN RowCells(cells, i + 1, player_data)
             ELSE LET withId == IF IsSome(cell.data_append_csv)
                                THEN BTreeMapInsert(player_data, S_player_id,
                                                    cell.data_append_csv[1])
                                ELSE player_data
                  IN  IF ~IsSome(cell.data_stat)
                      THEN [skip |-> TRUE, player_data |-> withId]
                      ELSE LET stat_name == cell.data_stat[1]
                               v == DataValElt(cell, stat_name)
                           IN  IF IsSome(v) /\ v[1].tag = "text"
                               THEN RowCells(cells, i + 1,
                                        BTreeMapInsert(withId, Trim(stat_name),
                                                       Trim(v[1].text)))
                               ELSE RowCells(cells, i + 1, withId)

\* One iteration of 'rowlabel (lines 125-177): the records a row adds to
\* retlist, none or one.
ParseRow(table_row, stats_type) ==
    LET r == RowCells(table_row.kids, 1, BTreeMapNew)
        player_data == r.player_data
    IN  IF ~r.skip /\ IsSome(BTreeMapGet(player_data, S_player_id))
                   /\ IsSome(BTreeMapGet(player_data, S_player))
        THEN << [player_id |-> player_data[S_player_id],
                 player_name |-> player_data[S_player],
                 typed_stats |-> [stats_type |-> stats_type,
                                  stats |-> player_data]] >>
        ELSE <<>>

RECURSIVE ParseRows(_, _, _)
ParseRows(rows, i, stats_type) ==
    IF i > Len(rows) THEN <<>>
    ELSE ParseRow(rows[i], stats_type) \o ParseRows(rows, i + 1, stats_type)

\* The tbody lookup of line 122 answers None for a table without tbody, and
\* unwrap() then panics.
TbodyMissing(table_elt) ==
    IF IsSome(table_elt.tbody) THEN "ok" ELSE "panic"

\* parse_player_stats_table: status "ok" is Ok(retlist), "err" is the
\* Err(String) of line 118, "panic" the failed unwrap of line 122.
ParsePlayerStatsTable(html_doc, table_selector_str, stats_type) ==
    LET found == html_doc.tables[table_selector_str]
    IN  IF ~IsSome(found) THEN [status |-> "err", retlist |-> <<>>]
        ELSE IF TbodyMissing(found[1]) # "ok"
             THEN [status |-> TbodyMissing(found[1]), retlist |-> <<>>]
             ELSE [status |-> "ok",
                   retlist |-> ParseRows(found[1].tbody[1], 1, stats_type)]

\* ------------------------------------------------------------------------
\* parse_game_log
\* ------------------------------------------------------------------------

\* MandatoryStats with `?` replaced by the tolerance the optional sections
\* get: a section that is not Ok is passed over.
RECURSIVE MandatoryStatsTolerant(_, _, _)
MandatoryStatsTolerant(html, i, player_stats) ==
    IF i > Len(MandatorySections)
    THEN [status |-> "ok", player_stats |-> player_stats]
    ELSE LET r == ParsePlayerStatsTable(html, MandatorySections[i].sel,
                                        MandatorySections[i].ty)
         IN  IF r.status = "panic"
             THEN [status |-> "panic", player_stats |-> <<>>]
             ELSE MandatoryStatsTolerant(html, i + 1,
                                         player_stats \o r.retlist)

\* Lines 190-193, from section i on: each section extends player_stats, and
\* `?` returns the first Err; what was collected so far is dropped with it.
RECURSIVE MandatoryStats(_, _, _)
MandatoryStats(html, i, player_stats) ==
    IF i > Len(MandatorySections)
    THEN [status |-> "ok", player_stats |-> player_stats]
    ELSE LET r == ParsePlayerStatsTable(html, MandatorySections[i].sel,
                                        MandatorySections[i].ty)
         IN  IF r.status # "ok"
             THEN [status |-> r.status, player_stats |-> <<>>]
             ELSE MandatoryStats(html, i + 1, player_stats \o r.retlist)

\* OptionalStats that stops at the first section that is not Ok.
RECURSIVE OptionalStatsUntilErr(_, _, _)
OptionalStatsUntilErr(html, i, player_stats) ==
    IF i > Len(OptionalSections)
    THEN [status |-> "ok", player_stats |-> player_stats]
    ELSE LET r == ParsePlayerStatsTable(html, OptionalSections[i].sel,
                                        OptionalSections[i].ty)
         IN  IF r.status = "panic"
             THEN [status |-> "panic", player_stats |-> <<>>]
             ELSE IF r.status = "err"
                  THEN [status |-> "ok", player_stats |-> player_stats]
                  ELSE OptionalStatsUntilErr(html, i + 1,
                                             player_stats \o r.retlist)

\* Lines 196-205, from section i on: an Err is passed over, an Ok extends
\* player_stats.
RECURSIVE OptionalStats(_, _, _)
OptionalStats(html, i, player_stats) ==
    IF i > Len(OptionalSections)
    THEN [status |-> "ok", player_stats |-> player_stats]
    ELSE LET r == ParsePlayerStatsTable(html, OptionalSections[i].sel,
                                        OptionalSections[i].ty)
         IN  IF r.status = "panic"
             THEN [status |-> "panic", player_stats |-> <<>>]
             ELSE OptionalStats(html, i + 1,
                                IF r.status = "ok"
                                THEN player_stats \o r.retlist
                                ELSE player_stats)

\* parse_game_log: Ok(GameStats), Err(String) or a panic.
ParseGameLog(game_log_html) ==
    LET m == MandatoryStats(game_log_html, 1, <<>>)
    IN  IF m.status # "ok"
        THEN [status |-> m.status, game_id |-> game_log_html.game_id,
              player_stats |-> <<>>]
        ELSE LET o == OptionalStats(game_log_html, 1, m.player_stats)
             IN  [status |-> o.status, game_id |-> game_log_html.game_id,
                  player_stats |-> o.player_stats]

\* ------------------------------------------------------------------------
\* Input documents
\* ------------------------------------------------------------------------

S_att == <<97, 116, 116>>

S_td == <<116, 100>>

S_yds == <<121, 100, 115>>

\* <a href=...>name</a>
Link(t) == Element(None, None, <<TextNode(t)>>)

\* <th data-append-csv=id data-stat="player"><a>name</a></th>
NameCell(id, name) == Element(Some(id), Some(S_player), <<Link(name)>>)

\* <td data-stat=stat>t</td>
StatCell(stat, t) == Element(None, Some(stat), <<TextNode(t)>>)

\* <th>Passing</th>, the cell of a header row
HeaderCell == Element(None, None, <<TextNode(<<80>>)>>)

\* The nodes a generated row is made of.
CellPool ==
    { TextNode(<<10, 32>>),
      HeaderCell,
      NameCell(<<65, 48>>, <<32, 65, 110, 110, 32>>),
      Element(None, Some(S_player), <<Link(<<65, 110, 110>>)>>),
      Element(Some(<<65, 48>>), Some(S_player), <<TextNode(<<65, 110, 110>>)>>),
      Element(Some(<<65, 48>>), Some(S_td), <<>>),
      StatCell(S_yds, <<32, 53, 55>>),
      StatCell(<<32, 112, 108, 97, 121, 101, 114>>, <<65, 108>>),
      StatCell(S_player_id, <<90, 57>>),
      Element(None, Some(S_td), <<Link(<<49>>)>>) }

\* <tr> with the given children
Tr(cells) == Element(None, None, cells)

GenRows == UNION {[1..n -> CellPool] : n \in 0..MaxCells}

HeaderRow == Tr(<<HeaderCell, HeaderCell>>)

\* Ann: yds then att
RowA ==
    Tr(<<NameCell(<<65, 48>>, <<65, 110, 110>>), StatCell(S_yds, <<53, 55>>),
         StatCell(S_att, <<51, 32>>)>>)

\* Bob: td before the name, then att; no yds
RowB ==
    Tr(<<StatCell(S_td, <<49>>), TextNode(<<10>>),
         NameCell(<<66, 49>>, <<66, 111, 98>>), StatCell(S_att, <<55>>)>>)

\* Cy: td only
RowC ==
    Tr(<<NameCell(<<67, 50>>, <<67, 121>>), StatCell(S_td, <<50>>)>>)

\* <table id=...><tbody>rows</tbody></table>
Table(rows) == Some([tbody |-> Some(rows)])

\* <table id=...></table>
TableNoTbody == Some([tbody |-> None])

BaseTables ==
    [sel \in Selectors |->
        CASE sel = "#player_offense" ->
                 Table(<<TextNode(<<10>>), HeaderRow, RowA, RowB>>)
          [] sel = "#player_defense" -> Table(<<RowC>>)
          [] sel = "#kicking" -> Table(<<HeaderRow>>)
          [] sel = "#passing_advanced" -> Table(<<RowA>>)
          [] sel = "#defense_advanced" -> Table(<<RowC, TextNode(<<10>>)>>)
          [] OTHER -> Table(<<>>)]

EmptyTables == [sel \in Selectors |-> Table(<<>>)]

\* Bob's row first, the advanced sections absent.
BobFirstTables ==
    [sel \in Selectors |->
        CASE sel = "#player_offense" -> Table(<<RowB, RowA>>)
          [] sel \in {OptionalSections[i].sel : i \in 1..4} -> None
          [] OTHER -> Table(<<>>)]

Without(tables, S) ==
    [sel \in Selectors |-> IF sel \in S THEN None ELSE tables[sel]]

With(tables, at, table) ==
    [sel \in Selectors |-> IF sel = at THEN table ELSE tables[sel]]

\* The game logs a week of several games is made of.
BatchPool ==
    { BaseTables,
      BobFirstTables,
      Without(BaseTables, {"#returns"}),
      With(EmptyTables, "#rushing_advanced", TableNoTbody),
      Without(With(EmptyTables, "#rushing_advanced", Table(<<RowC>>)),
              {"#defense_advanced"}) }

\* The game logs a week of one game is made of: every set of absent
\* sections, every generated row, every table without tbody.
SinglePool ==
    {Without(BaseTables, S) : S \in SUBSET Selectors}
        \cup {With(EmptyTables, "#player_offense",
                   Table(<<HeaderRow, Tr(r), RowA>>)) : r \in GenRows}
        \cup {With(BaseTables, sel, TableNoTbody) : sel \in Selectors}

\* The id in the canonical link of the i-th game log.
GameId(i) == <<103, 48 + i>>

WeekPages ==
    {[i \in 1..1 |-> t] : t \in SinglePool}
        \cup UNION {[1..n -> BatchPool] : n \in 0..MaxDocs}

\* ------------------------------------------------------------------------
\* process_week
\* ------------------------------------------------------------------------

VARIABLES
    year,            \* parse_year(week_uri)
    week_num,        \* parse_week_num(week_uri)
    docs,            \* the game logs behind game_log_links, in link order
    inflight,        \* the fetches join_all is still waiting for
    completed,       \* the fetches that completed, in completion order
    game_log_htmls,  \* the parsed game logs
    game_infos,      \* Vec<GameInfo>
    stats_type_cols, \* HashMap<StatsType, Vec<&str>>
    files,           \* per created file, the records written to it
    idx,             \* position of the running loop
    pc               \* position in process_week

vars ==
    <<year, week_num, docs, inflight, completed, game_log_htmls, game_infos,
      stats_type_cols, files, idx, pc>>

\* join_all that yields the outputs in the order the futures completed.
JoinAllCompletionOrder(outputs, order) ==
    [k \in 1..Len(order) |-> outputs[order[k]]]

\* join_all: the outputs in the order of the futures passed in.
JoinAll(outputs, order) == outputs

\* Lines 294-296: the records of all games, flattened in game order.
RECURSIVE AllPlayerStats(_, _)
AllPlayerStats(infos, g) ==
    IF g > Len(infos) THEN <<>>
    ELSE [k \in 1..Len(infos[g].stats.player_stats) |->
             [game |-> g, player_stats |-> infos[g].stats.player_stats[k]]]
         \o AllPlayerStats(infos, g + 1)

\* entry().or_insert_with() replaced by insert(): the last record wins.
EntryInsert(cols, stats_type, stats) ==
    [t \in (DOMAIN cols) \cup {stats_type} |->
        IF t = stats_type THEN BTreeMapKeys(stats) ELSE cols[t]]

\* or_insert_with() that leaves player_id and player out of the key list.
EntryOrInsertWithoutIdentity(cols, stats_type, stats) ==
    IF stats_type \in DOMAIN cols THEN cols
    ELSE [t \in (DOMAIN cols) \cup {stats_type} |->
             IF t = stats_type
             THEN SelectSeq(BTreeMapKeys(stats),
                            LAMBDA f : f \notin {S_player_id, S_player})
             ELSE cols[t]]

\* Lines 300-301: entry(stats_type).or_insert_with(keys of the record)
EntryOrInsertWith(cols, stats_type, stats) ==
    IF stats_type \in DOMAIN cols THEN cols
    ELSE [t \in (DOMAIN cols) \cup {stats_type} |->
             IF t = stats_type THEN BTreeMapKeys(stats) ELSE cols[t]]

\* Lines 312-313
AllCols(cols) == <<S_year, S_week, S_game_id>> \o cols

\* StatVals that passes over a column the record lacks.
RECURSIVE StatValsPresent(_, _, _)
StatValsPresent(stats, cols, i) ==
    IF i > Len(cols) THEN <<>>
    ELSE (IF IsSome(BTreeMapGet(stats, cols[i]))
          THEN <<stats[cols[i]]>> ELSE <<>>)
         \o StatValsPresent(stats, cols, i + 1)

\* Lines 332-339, from column i on
RECURSIVE StatVals(_, _, _)
StatVals(stats, cols, i) ==
    IF i > Len(cols) THEN <<>>
    ELSE <<(IF IsSome(BTreeMapGet(stats, cols[i]))
            THEN stats[cols[i]] ELSE S_empty)>>
         \o StatVals(stats, cols, i + 1)

\* Lines 327-339
Vals(game_info, stats, cols) ==
    <<U32ToString(game_info.year), U32ToString(game_info.week_num),
      game_info.stats.game_id>> \o StatVals(stats, cols, 1)

\* Header files for every stats type.
HeaderTypesAll(cols) == StatsType

\* Line 309: the stats types a file is created for
HeaderTypes(cols) == DOMAIN cols

Init ==
    /\ year = 2021
    /\ week_num = 10
    /\ docs \in {[i \in DOMAIN w |-> [game_id |-> GameId(i), tables |-> w[i]]]
                    : w \in WeekPages}
    /\ inflight = DOMAIN docs
    /\ completed = <<>>
    /\ game_log_htmls = <<>>
    /\ game_infos = <<>>
    /\ stats_type_cols = [t \in {} |-> <<>>]
    /\ files = [t \in {} |-> <<>>]
    /\ idx = 0
    /\ pc = "fetch"

\* One of the fetches of line 272 completes.
FetchComplete(i) ==
    /\ pc = "fetch"
    /\ i \in inflight
    /\ inflight' = inflight \ {i}
    /\ completed' = Append(completed, i)
    /\ UNCHANGED <<year, week_num, docs, game_log_htmls, game_infos,
                   stats_type_cols, files, idx, pc>>

\* Lines 272-283: join_all returns and the bodies are parsed.
JoinAllReturns ==
    /\ pc = "fetch"
    /\ inflight = {}
    /\ game_log_htmls' = JoinAll(docs, completed)
    /\ idx' = 1
    /\ pc' = "parse"
    /\ UNCHANGED <<year, week_num, docs, inflight, completed, game_infos,
                   stats_type_cols, files>>

\* Lines 288-291: the next game log is parsed; anything but Ok panics.
ParseNext ==
    /\ pc = "parse"
    /\ idx <= Len(game_log_htmls)
    /\ LET r == ParseGameLog(game_log_htmls[idx])
       IN  IF r.status = "ok"
           THEN /\ game_infos' =
                       Append(game_infos,
                              [year |-> year, week_num |-> week_num,
                               stats |-> [game_id |-> r.game_id,
                                          player_stats |-> r.player_stats]])
                /\ idx' = idx + 1
                /\ pc' = pc
           ELSE /\ pc' = "panicked"
                /\ UNCHANGED <<game_infos, idx>>
    /\ UNCHANGED <<year, week_num, docs, inflight, completed, game_log_htmls,
                   stats_type_cols, files>>

\* Line 292: collect() ends.
Collected ==
    /\ pc = "parse"
    /\ idx > Len(game_log_htmls)
    /\ idx' = 1
    /\ pc' = "cols"
    /\ UNCHANGED <<year, week_num, docs, inflight, completed, game_log_htmls,
                   game_infos, stats_type_cols, files>>

\* Lines 299-302: one iteration of the loop over all_typed_stats.
FoldNext ==
    /\ pc = "cols"
    /\ idx <= Len(AllPlayerStats(game_infos, 1))
    /\ LET typed_stats ==
               AllPlayerStats(game_infos, 1)[idx].player_stats.typed_stats
       IN  stats_type_cols' =
               EntryOrInsertWith(stats_type_cols, typed_stats.stats_type,
                                 typed_stats.stats)
    /\ idx' = idx + 1
    /\ UNCHANGED <<year, week_num, docs, inflight, completed, game_log_htmls,
                   game_infos, files, pc>>

\* Lines 305-308: the loop ends and the output directory is created.
CreateDirAll ==
    /\ pc = "cols"
    /\ idx > Len(AllPlayerStats(game_infos, 1))
    /\ idx' = 0
    /\ pc' = "headers"
    /\ UNCHANGED <<year, week_num, docs, inflight, completed, game_log_htmls,
                   game_infos, stats_type_cols, files>>

\* Lines 309-319: one iteration of the loop over stats_type_cols, which a
\* HashMap yields in any order: the file is created and its header written.
WriteHeader(stats_type) ==
    /\ pc = "headers"
    /\ stats_type \in HeaderTypes(stats_type_cols) \ DOMAIN files
    /\ files' =
           [t \in (DOMAIN files) \cup {stats_type} |->
               IF t = stats_type
               THEN <<AllCols(IF stats_type \in DOMAIN stats_type_cols
                              THEN stats_type_cols[stats_type] ELSE <<>>)>>
               ELSE files[t]]
    /\ UNCHANGED <<year, week_num, docs, inflight, completed, game_log_htmls,
                   game_infos, stats_type_cols, idx, pc>>

\* Line 319: the loop over stats_type_cols ends.
HeadersWritten ==
    /\ pc = "headers"
    /\ HeaderTypes(stats_type_cols) \subseteq DOMAIN files
    /\ idx' = 1
    /\ pc' = "rows"
    /\ UNCHANGED <<year, week_num, docs, inflight, completed, game_log_htmls,
                   game_infos, stats_type_cols, files>>

\* Lines 321-343: one iteration of the inner loop, one record written.
WriteRow ==
    /\ pc = "rows"
    /\ idx <= Len(AllPlayerStats(game_infos, 1))
    /\ LET e == AllPlayerStats(game_infos, 1)[idx]
           stats_type == e.player_stats.typed_stats.stats_type
           stats == e.player_stats.typed_stats.stats
       IN  IF stats_type \in DOMAIN files
                /\ stats_type \in DOMAIN stats_type_cols
           THEN /\ files' =
                       [files EXCEPT ![stats_type] =
                           Append(@, Vals(game_infos[e.game], stats,
                                          stats_type_cols[stats_type]))]
                /\ idx' = idx + 1
                /\ pc' = pc
           ELSE /\ pc' = "panicked"
                /\ UNCHANGED <<files, idx>>
    /\ UNCHANGED <<year, week_num, docs, inflight, completed, game_log_htmls,
                   game_infos, stats_type_cols>>

\* Lines 345-346
Finished ==
    /\ pc = "rows"
    /\ idx > Len(AllPlayerStats(game_infos, 1))
    /\ pc' = "done"
    /\ UNCHANGED <<year, week_num, docs, inflight, completed, game_log_htmls,
                   game_infos, stats_type_cols, files, idx>>

Next ==
    \/ \E i \in DOMAIN docs : FetchComplete(i)
    \/ JoinAllReturns
    \/ ParseNext
    \/ Collected
    \/ FoldNext
    \/ CreateDirAll
    \/ \E stats_type \in StatsType : WriteHeader(stats_type)
    \/ HeadersWritten
    \/ WriteRow
    \/ Finished

Spec == Init /\ [][Next]_vars

\* ------------------------------------------------------------------------
\* Vocabulary of the properties, read off the documents themselves
\* ------------------------------------------------------------------------

Sections == MandatorySections \o OptionalSections

Range(f) == {f[k] : k \in DOMAIN f}

SectionPresent(doc, sel) == IsSome(doc.tables[sel])

LacksMandatory(doc) ==
    \E k \in 1..Len(MandatorySections) :
        ~SectionPresent(doc, MandatorySections[k].sel)

HasTbody(doc, sel) ==
    SectionPresent(doc, sel) /\ IsSome(doc.tables[sel][1].tbody)

\* The children of the section's tbody; none when there is no tbody.
BodyRows(doc, sel) ==
    IF HasTbody(doc, sel) THEN doc.tables[sel][1].tbody[1] ELSE <<>>

\* The cell is an element whose value node is a text node.
HasTextValue(cell) ==
    /\ cell.kids # <<>>
    /\ IF cell.data_stat = Some(S_player)
       THEN /\ cell.kids[1].kids # <<>>
            /\ cell.kids[1].kids[1].tag = "text"
       ELSE cell.kids[1].tag = "text"

\* The cell gives the record a value for field f.
Contributes(cell, f) ==
    /\ cell.tag = "elem"
    /\ \/ f = S_player_id /\ IsSome(cell.data_append_csv)
       \/ /\ IsSome(cell.data_stat)
          /\ Trim(cell.data_stat[1]) = f
          /\ HasTextValue(cell)

\* The field names the cells of a row carry.
RowFields(row) ==
    {f \in {S_player_id} \cup
           {Trim(row.kids[k].data_stat[1]) :
                k \in {j \in DOMAIN row.kids : IsSome(row.kids[j].data_stat)}} :
        \E k \in DOMAIN row.kids : Contributes(row.kids[k], f)}

\* The position of the first cell that carries field f.
FieldCell(row, f) ==
    CHOOSE k \in DOMAIN row.kids :
        /\ Contributes(row.kids[k], f)
        /\ \A j \in 1..(k - 1) : ~Contributes(row.kids[j], f)

EveryElementHasDataStat(row) ==
    \A k \in DOMAIN row.kids :
        row.kids[k].tag = "elem" => IsSome(row.kids[k].data_stat)

\* The acceptance condition of a table-body row.
RowAccepted(row) ==
    /\ EveryElementHasDataStat(row)
    /\ S_player_id \in RowFields(row)
    /\ S_player \in RowFields(row)

\* The accepted rows of a document, section by section, row by row.
RECURSIVE AcceptedRowsOf(_, _)
AcceptedRowsOf(doc, s) ==
    IF s > Len(Sections) THEN <<>>
    ELSE LET rows == BodyRows(doc, Sections[s].sel)
             tagged == [k \in DOMAIN rows |->
                           [ty |-> Sections[s].ty, row |-> rows[k]]]
         IN  SelectSeq(tagged, LAMBDA e : RowAccepted(e.row))
             \o AcceptedRowsOf(doc, s + 1)

\* The accepted rows of the week in link order.
RECURSIVE LinkOrderRowsFrom(_)
LinkOrderRowsFrom(i) ==
    IF i > Len(docs) THEN <<>>
    ELSE AcceptedRowsOf(docs[i], 1) \o LinkOrderRowsFrom(i + 1)

LinkOrderRows == LinkOrderRowsFrom(1)

\* The records of the week in link order: game by game as the week page
\* links them, within a game in extraction order.
LinkOrderStats ==
    AllPlayerStats(
        [i \in DOMAIN docs |->
            [year |-> year, week_num |-> week_num,
             stats |-> [game_id |-> docs[i].game_id,
                        player_stats |-> ParseGameLog(docs[i]).player_stats]]],
        1)

TypeOf(e) == e.player_stats.typed_stats.stats_type

StatsOf(e) == e.player_stats.typed_stats.stats

\* The position in a list of records of the first record of a stats type.
FirstOfType(L, stats_type) ==
    CHOOSE k \in DOMAIN L :
        /\ TypeOf(L[k]) = stats_type
        /\ \A j \in 1..(k - 1) : TypeOf(L[j]) # stats_type

\* The number of records the loop over all_typed_stats has gone through.
Folded(at, i, n) ==
    IF at = "cols" THEN i - 1
    ELSE IF at \in {"headers", "rows", "done"} THEN n
    ELSE 0

\* The number of records the loop that writes the data rows has gone
\* through.
Written(at, i, n) ==
    IF at = "rows" THEN i - 1 ELSE IF at = "done" THEN n ELSE 0

NoOutput == DOMAIN files = {}

\* ------------------------------------------------------------------------
\* C1
\* ------------------------------------------------------------------------

\* C1: when a game log of the week lacks one of the four mandatory sections,
\* parse_game_log does not return Ok for it and process_week never gets
\* past parsing it: no GameInfo is made of it, no schema is derived, and no
\* file, header row or data row is ever written, whatever its other
\* sections hold.
C1_MandatoryMissingAborts ==
    \A i \in DOMAIN docs :
        LacksMandatory(docs[i]) =>
            /\ ParseGameLog(docs[i]).status # "ok"
            /\ ParseGameLog(docs[i]).player_stats = <<>>
            /\ Len(game_infos) < i
            /\ pc \in {"fetch", "parse", "panicked"}
            /\ DOMAIN stats_type_cols = {}
            /\ NoOutput

\* The week was abandoned at its second game log, which lacks a mandatory
\* section that comes after a section with accepted rows; the first game
\* log had been parsed.
C1_Witness ==
    /\ pc = "panicked"
    /\ Len(game_infos) = 1
    /\ Len(docs) >= 2
    /\ LacksMandatory(docs[2])
    /\ SectionPresent(docs[2], "#player_offense")
    /\ \E k \in DOMAIN BodyRows(docs[2], "#player_offense") :
           RowAccepted(BodyRows(docs[2], "#player_offense")[k])
    /\ game_infos[1].stats.player_stats # <<>>

\* ------------------------------------------------------------------------
\* C2
\* ------------------------------------------------------------------------

\* The records of one stats type among a list of PlayerGameStats.
OfType(player_stats, stats_type) ==
    SelectSeq(player_stats, LAMBDA ps : ps.typed_stats.stats_type = stats_type)

\* The document with a table put where an optional section is absent.
WithOptionalSections(doc) ==
    [doc EXCEPT !.tables =
        [sel \in Selectors |->
            IF SectionPresent(doc, sel) THEN doc.tables[sel]
            ELSE Table(<<RowC, RowA>>)]]

\* parse_game_log has been called on the i-th game log.
Parsed(i) ==
    \/ pc = "parse" /\ i < idx
    \/ pc = "panicked" /\ i <= idx
    \/ pc \in {"cols", "headers", "rows", "done"}

\* C2: for every game log with the four mandatory sections present,
\* parse_game_log returns Ok (the week is not given up at that game log),
\* holds no record of an absent optional section, and holds for every
\* section that is present the records it holds when the absent optional
\* sections are present too.
C2_OptionalAbsentTolerated ==
    \A i \in DOMAIN docs :
        (Parsed(i) /\ ~LacksMandatory(docs[i])) =>
            LET r == ParseGameLog(docs[i])
                full == ParseGameLog(WithOptionalSections(docs[i]))
            IN  /\ ~(pc = "panicked" /\ idx = i)
                /\ r.status = "ok"
                /\ Len(game_infos) >= i =>
                       game_infos[i].stats.player_stats = r.player_stats
                /\ \A s \in DOMAIN Sections :
                       IF SectionPresent(docs[i], Sections[s].sel)
                       THEN OfType(r.player_stats, Sections[s].ty)
                                = OfType(full.player_stats, Sections[s].ty)
                       ELSE OfType(r.player_stats, Sections[s].ty) = <<>>

\* ------------------------------------------------------------------------
\* C3
\* ------------------------------------------------------------------------

\* Once a stats type has a schema, no step changes or removes it.
SchemaFrozen ==
    \A t \in DOMAIN stats_type_cols :
        /\ t \in DOMAIN stats_type_cols'
        /\ stats_type_cols'[t] = stats_type_cols[t]

\* The stats types with a schema are those of the first n records of L,
\* and the schema of each lists the keys of its first record in L.
SchemaOfFirst(cols, L, n) ==
    /\ DOMAIN cols = {TypeOf(L[k]) : k \in 1..n}
    /\ \A t \in DOMAIN cols :
           LET first == StatsOf(L[FirstOfType(L, t)])
           IN  /\ Range(cols[t]) = DOMAIN first
               /\ Len(cols[t]) = Cardinality(DOMAIN first)

\* C3: within one week the schema of a stats type is set once, from the first
\* record of that type in link order (records of a game in extraction
\* order), and no later step changes it, whatever fields the later records
\* of the type carry.
C3_SchemaSetOnce ==
    [][LET L == LinkOrderStats
       IN  /\ SchemaOfFirst(stats_type_cols, L, Folded(pc, idx, Len(L)))
           /\ SchemaOfFirst(stats_type_cols', L, Folded(pc', idx', Len(L)))
           /\ SchemaFrozen]_vars

\* The fold has gone past a later record of a type whose fields are not
\* all in the schema the type got from its first record.
C3_Witness ==
    /\ pc = "cols"
    /\ LET L == LinkOrderStats
       IN  \E k \in 1..Folded(pc, idx, Len(L)) :
               LET t == TypeOf(L[k])
               IN  /\ k > FirstOfType(L, t)
                   /\ t \in DOMAIN stats_type_cols
                   /\ ~(DOMAIN StatsOf(L[k])
                            \subseteq Range(stats_type_cols[t]))

\* ------------------------------------------------------------------------
\* C4
\* ------------------------------------------------------------------------

\* The first accepted row of a stats type in a list of accepted rows.
FirstRowOfType(R, stats_type) ==
    R[CHOOSE k \in DOMAIN R :
          /\ R[k].ty = stats_type
          /\ \A j \in 1..(k - 1) : R[j].ty # stats_type].row

\* C4 as stated: the schema of a stats type lists the field names of the
\* type's first accepted row in the order in which the cells that carry
\* them come in the row (player_id and player come from the same cell, so
\* either may precede the other).
C4_SchemaInCellOrder ==
    LET R == LinkOrderRows
    IN  \A t \in DOMAIN stats_type_cols :
            LET row == FirstRowOfType(R, t)
                cols == stats_type_cols[t]
            IN  \A a, b \in DOMAIN cols :
                    a < b => FieldCell(row, cols[a]) <= FieldCell(row, cols[b])

\* C4, amended: the schema of a stats type lists the field names of the
\* type's first accepted row, each once, in ascending byte order of the
\* names, whatever the order of the cells in the row.
C4_SchemaInKeyOrder ==
    LET R == LinkOrderRows
    IN  \A t \in DOMAIN stats_type_cols :
            LET row == FirstRowOfType(R, t)
                cols == stats_type_cols[t]
            IN  /\ Range(cols) = RowFields(row)
                /\ \A a, b \in DOMAIN cols :
                       a < b => StrLess(cols[a], cols[b])

\* A stats type has its schema from a row in which a field with the greater
\* name comes in an earlier cell than a field with the smaller name.
C4_Witness ==
    LET R == LinkOrderRows
    IN  \E t \in DOMAIN stats_type_cols :
            LET row == FirstRowOfType(R, t)
            IN  \E f, g \in RowFields(row) :
                    /\ StrLess(f, g)
                    /\ FieldCell(row, g) < FieldCell(row, f)

\* ------------------------------------------------------------------------
\* C5
\* ------------------------------------------------------------------------

Coordinates == <<S_year, S_week, S_game_id>>

\* The column of a field in a schema.
ColOf(cols, f) == CHOOSE c \in DOMAIN cols : cols[c] = f

\* C5 as stated: no schema holds player_id or player, and every row of a
\* file has the three coordinate columns and one column per other field of
\* the schema-giving record.
C5_IdentityExcluded ==
    LET L == LinkOrderStats
    IN  \A t \in DOMAIN stats_type_cols :
            /\ S_player_id \notin Range(stats_type_cols[t])
            /\ S_player \notin Range(stats_type_cols[t])
            /\ t \in DOMAIN files =>
                   \A k \in DOMAIN files[t] :
                       Len(files[t][k]) =
                           3 + Cardinality(DOMAIN StatsOf(L[FirstOfType(L, t)])
                                               \ {S_player_id, S_player})

\* C5, amended: every schema holds player_id and player like any other field
\* of the schema-giving record; the header row is the three coordinate names
\* followed by all names of the schema, and every data row is three
\* coordinate values followed by one value per schema field, the record's
\* player_id and player among them.
C5_IdentityInSchema ==
    LET L == LinkOrderStats
    IN  \A t \in DOMAIN stats_type_cols :
            LET cols == stats_type_cols[t]
                recs == SelectSeq(L, LAMBDA e : TypeOf(e) = t)
            IN  /\ {S_player_id, S_player} \subseteq Range(cols)
                /\ t \in DOMAIN files =>
                       /\ files[t][1] = Coordinates \o cols
                       /\ \A k \in 2..Len(files[t]) :
                              LET vals == files[t][k]
                                  ps == recs[k - 1].player_stats
                              IN  /\ Len(vals) = 3 + Len(cols)
                                  /\ vals[3 + ColOf(cols, S_player_id)]
                                         = ps.player_id
                                  /\ vals[3 + ColOf(cols, S_player)]
                                         = ps.player_name

\* A file holds its header row and at least two data rows.
C5_Witness ==
    /\ pc = "done"
    /\ \E t \in DOMAIN files :
           /\ Len(files[t]) >= 3
           /\ Len(files[t][1]) > 5

\* ------------------------------------------------------------------------
\* C6
\* ------------------------------------------------------------------------

\* The number a string of decimal digits without leading zero stands for,
\* -1 for any other string.
RECURSIVE Decimal(_)
Decimal(s) ==
    IF s = <<>> \/ (Len(s) > 1 /\ s[1] = 48) THEN -1
    ELSE IF s[Len(s)] \notin 48..57 THEN -1
    ELSE IF Len(s) = 1 THEN s[1] - 48
    ELSE LET hi == Decimal(SubSeq(s, 1, Len(s) - 1))
         IN  IF hi < 1 THEN -1 ELSE 10 * hi + (s[Len(s)] - 48)

\* The row is that of record e under the schema cols: the coordinates, then
\* per schema field the record's value or the empty string.
IsRowOf(vals, e, cols) ==
    /\ Len(vals) = 3 + Len(cols)
    /\ Decimal(vals[1]) = year
    /\ Decimal(vals[2]) = week_num
    /\ vals[3] = docs[e.game].game_id
    /\ \A c \in DOMAIN cols :
           vals[3 + c] = IF cols[c] \in DOMAIN StatsOf(e)
                         THEN StatsOf(e)[cols[c]]
                         ELSE <<>>

\* C6: the data rows of a stats type's file are, one per record and in
\* order, the rows of the records of that type the writing loop has gone
\* through: year, week and game id followed by one value per schema field in
\* schema order, the record's value or the empty string; a field of the
\* record outside the schema adds no column.
C6_OneRowPerRecord ==
    LET L == LinkOrderStats
        n == Written(pc, idx, Len(L))
    IN  /\ \A k \in 1..n : TypeOf(L[k]) \in DOMAIN files
        /\ \A t \in DOMAIN files :
               LET recs == SelectSeq(SubSeq(L, 1, n), LAMBDA e : TypeOf(e) = t)
               IN  /\ Len(files[t]) = 1 + Len(recs)
                   /\ \A k \in DOMAIN recs :
                          IsRowOf(files[t][k + 1], recs[k], stats_type_cols[t])

\* All rows are written, and one of them is of a record that lacks a field
\* of its schema and has a field outside it.
C6_Witness ==
    /\ pc = "done"
    /\ LET L == LinkOrderStats
       IN  \E k \in DOMAIN L :
               LET cols == stats_type_cols[TypeOf(L[k])]
               IN  /\ k > FirstOfType(L, TypeOf(L[k]))
                   /\ Range(cols) \ DOMAIN StatsOf(L[k]) # {}
                   /\ DOMAIN StatsOf(L[k]) \ Range(cols) # {}

\* ------------------------------------------------------------------------
\* C7
\* ------------------------------------------------------------------------

\* The schemas of a list of records: per stats type the names of its first
\* record, ascending.
SchemasOf(L) ==
    [t \in {TypeOf(L[k]) : k \in DOMAIN L} |->
        Ascending(DOMAIN StatsOf(L[FirstOfType(L, t)]))]

\* The files of a list of records: per stats type the header row and the
\* rows of its records.
FilesOf(L) ==
    LET schemas == SchemasOf(L)
    IN  [t \in DOMAIN schemas |->
            LET recs == SelectSeq(L, LAMBDA e : TypeOf(e) = t)
            IN  <<Coordinates \o schemas[t]>> \o
                [k \in DOMAIN recs |->
                    <<U32ToString(year), U32ToString(week_num),
                      docs[recs[k].game].game_id>> \o
                    [c \in DOMAIN schemas[t] |->
                        IF schemas[t][c] \in DOMAIN StatsOf(recs[k])
                        THEN StatsOf(recs[k])[schemas[t][c]]
                        ELSE <<>>]]]

\* C7: the game logs reach the parser in link order whatever the order the
\* fetches completed in; no schema is set and nothing is written before all
\* fetches completed and all game logs were parsed; and the schemas and the
\* files of a finished week are those of the week's records in link order,
\* a function of the documents alone.
C7_LinkOrderNotCompletionOrder ==
    /\ pc # "fetch" => game_log_htmls = docs
    /\ \A g \in DOMAIN game_infos :
           /\ game_infos[g].stats.game_id = docs[g].game_id
           /\ game_infos[g].stats.player_stats
                  = ParseGameLog(docs[g]).player_stats
    /\ (DOMAIN stats_type_cols # {} \/ DOMAIN files # {}) =>
           /\ inflight = {}
           /\ Len(completed) = Len(docs)
           /\ Len(game_infos) = Len(docs)
           /\ pc \in {"cols", "headers", "rows", "done"}
    /\ pc = "done" =>
           LET L == LinkOrderStats
           IN  /\ stats_type_cols = SchemasOf(L)
               /\ files = FilesOf(L)

\* A week of two game logs is finished whose second fetch completed first
\* and whose two game logs give the offense schema different fields.
C7_Witness ==
    /\ pc = "done"
    /\ completed = <<2, 1>>
    /\ docs[1].tables = BaseTables
    /\ docs[2].tables = BobFirstTables
    /\ Len(files["Offense"]) = 5

\* ------------------------------------------------------------------------
\* C8
\* ------------------------------------------------------------------------

AcceptedCount(rows) ==
    Cardinality({k \in DOMAIN rows : RowAccepted(rows[k])})

\* C8: a row of a table body yields one record when every element child has
\* data-stat and the cells give both player_id and player a value, and no
\* record otherwise; a table with a tbody is always read to its end with
\* Ok, so that its records are as many as its accepted rows.
C8_RowAcceptance ==
    \A i \in DOMAIN docs :
        \A s \in DOMAIN Sections :
            LET rows == BodyRows(docs[i], Sections[s].sel)
                ty == Sections[s].ty
            IN  /\ \A k \in DOMAIN rows :
                       Len(ParseRow(rows[k], ty)) =
                           IF RowAccepted(rows[k]) THEN 1 ELSE 0
                /\ HasTbody(docs[i], Sections[s].sel) =>
                       LET r == ParsePlayerStatsTable(docs[i],
                                                      Sections[s].sel, ty)
                       IN  /\ r.status = "ok"
                           /\ Len(r.retlist) = AcceptedCount(rows)
                /\ i <= Len(game_infos) =>
                       Len(OfType(game_infos[i].stats.player_stats, ty))
                           = AcceptedCount(rows)

\* A parsed game log has a row in which an element without data-stat comes
\* after cells that gave player_id and player, followed by an accepted row.
C8_Witness ==
    /\ Len(game_infos) >= 1
    /\ LET rows == BodyRows(docs[1], "#player_offense")
       IN  \E k \in DOMAIN rows :
               /\ k < Len(rows)
               /\ RowAccepted(rows[k + 1])
               /\ \E j \in DOMAIN rows[k].kids :
                      /\ rows[k].kids[j].tag = "elem"
                      /\ ~IsSome(rows[k].kids[j].data_stat)
                      /\ \E a, b \in 1..(j - 1) :
                             /\ Contributes(rows[k].kids[a], S_player_id)
                             /\ Contributes(rows[k].kids[b], S_player)

\* ------------------------------------------------------------------------
\* C9
\* ------------------------------------------------------------------------

\* C9: parse_player_stats_table never panics: for every game log handed to
\* parse_game_log, an absent section gives the section-missing Err, a
\* section that is present gives Ok, with an empty list when it has no data
\* row, and the week is given up only at a game log that lacks a mandatory
\* section.
C9_NeverPanics ==
    /\ \A i \in DOMAIN docs :
           Parsed(i) =>
               \A s \in DOMAIN Sections :
                   LET r == ParsePlayerStatsTable(docs[i], Sections[s].sel,
                                                  Sections[s].ty)
                   IN  /\ r.status # "panic"
                       /\ ~SectionPresent(docs[i], Sections[s].sel)
                              => r.status = "err"
                       /\ SectionPresent(docs[i], Sections[s].sel)
                              => r.status = "ok"
                       /\ AcceptedCount(BodyRows(docs[i], Sections[s].sel)) = 0
                              => r.retlist = <<>>
    /\ pc = "panicked" => LacksMandatory(docs[idx])

\* ------------------------------------------------------------------------
\* C10
\* ------------------------------------------------------------------------

\* C10: a file exists only for a stats type with a schema; its first row is
\* the header row (year, week, game_id and the schema) and no later row is
\* a header row; no data row is written while header rows are still being
\* written; and once the header rows are written, the stats types with a
\* file are those with at least one record in the week.
C10_HeaderOnceFirst ==
    /\ DOMAIN files \subseteq DOMAIN stats_type_cols
    /\ \A t \in DOMAIN files :
           /\ files[t][1] = Coordinates \o stats_type_cols[t]
           /\ \A k \in 2..Len(files[t]) :
                  /\ files[t][k] # files[t][1]
                  /\ files[t][k][1] # S_year
           /\ pc \notin {"rows", "done"} => Len(files[t]) = 1
    /\ pc \in {"rows", "done"} =>
           LET L == LinkOrderStats
           IN  DOMAIN files = {TypeOf(L[k]) : k \in DOMAIN L}

\* A finished week in which the offense file has a header row and data
\* rows, and the kicking section, present in every game log, has no record
\* and no file.
C10_Witness ==
    /\ pc = "done"
    /\ "Offense" \in DOMAIN files
    /\ Len(files["Offense"]) >= 3
    /\ "Kicking" \notin DOMAIN files
    /\ \A i \in DOMAIN docs : SectionPresent(docs[i], "#kicking")

\* ------------------------------------------------------------------------
\* C11
\* ------------------------------------------------------------------------

\* The text of the cell's value node: two levels below the cell when
\* data-stat is "player", one level below otherwise.
ValueText(cell) ==
    IF cell.data_stat = Some(S_player)
    THEN cell.kids[1].kids[1].text
    ELSE cell.kids[1].text

\* The cell carries data-stat but its value node is missing or is no text.
NoTextValue(cell) ==
    /\ cell.tag = "elem"
    /\ IsSome(cell.data_stat)
    /\ ~HasTextValue(cell)

\* The value the cells of a row give field f: that of the last cell that
\* carries it, the trimmed text of its value node, or its data-append-csv
\* when the cell carries f by that attribute only.
FieldValue(row, f) ==
    LET last == CHOOSE k \in DOMAIN row.kids :
                    /\ Contributes(row.kids[k], f)
                    /\ \A j \in (k + 1)..Len(row.kids) :
                           ~Contributes(row.kids[j], f)
        cell == row.kids[last]
    IN  IF /\ IsSome(cell.data_stat)
           /\ Trim(cell.data_stat[1]) = f
           /\ HasTextValue(cell)
        THEN Trim(ValueText(cell))
        ELSE cell.data_append_csv[1]

\* The fields and values the cells of a row give.
RowData(row) == [f \in RowFields(row) |-> FieldValue(row, f)]

\* The accepted rows among the children of a tbody, in order.
AcceptedOf(rows) == SelectSeq(rows, RowAccepted)

\* C11: the value of a cell with data-stat "player" is the trimmed text of
\* the first child of the cell's first child, that of a cell with any other
\* data-stat the trimmed text of the cell's first child; a cell whose value
\* node is missing or is no text node gives its field no value, the cells
\* after it are still read, and the table is read to its end with Ok.  So
\* the record of a row whose elements all carry data-stat holds exactly the
\* fields and values its cells give, and the records of a parsed game log
\* are those of its accepted rows.
C11_ValueExtraction ==
    \A i \in DOMAIN docs :
        \A s \in DOMAIN Sections :
            LET rows == BodyRows(docs[i], Sections[s].sel)
                ty == Sections[s].ty
                acc == AcceptedOf(rows)
            IN  /\ \A k \in DOMAIN rows :
                       EveryElementHasDataStat(rows[k]) =>
                           LET r == RowCells(rows[k].kids, 1, BTreeMapNew)
                           IN  /\ ~r.skip
                               /\ r.player_data = RowData(rows[k])
                /\ HasTbody(docs[i], Sections[s].sel) =>
                       ParsePlayerStatsTable(docs[i], Sections[s].sel, ty).status
                           = "ok"
                /\ i <= Len(game_infos) =>
                       LET recs == OfType(game_infos[i].stats.player_stats, ty)
                       IN  /\ Len(recs) = Len(acc)
                           /\ \A k \in DOMAIN recs :
                                  /\ recs[k].typed_stats.stats = RowData(acc[k])
                                  /\ recs[k].player_name
                                         = FieldValue(acc[k], S_player)
                                  /\ recs[k].player_id
                                         = FieldValue(acc[k], S_player_id)

\* A parsed game log has a record from a row in which a cell without text
\* value node comes before the cell that gives the name; the record has no
\* value for the field of that cell.
C11_Witness ==
    /\ Len(game_infos) >= 1
    /\ game_infos[1].stats.player_stats # <<>>
    /\ LET rows == BodyRows(docs[1], "#player_offense")
       IN  \E k \in DOMAIN rows :
               /\ RowAccepted(rows[k])
               /\ \E a, b \in DOMAIN rows[k].kids :
                      /\ a < b
                      /\ NoTextValue(rows[k].kids[a])
                      /\ Contributes(rows[k].kids[b], S_player)
                      /\ Trim(rows[k].kids[a].data_stat[1])
                             \notin DOMAIN RowData(rows[k])
                      /\ \E e \in Range(game_infos[1].stats.player_stats) :
                             e.typed_stats.stats = RowData(rows[k])

====
